---- MODULE Spec2Model ----
(***************************************************************************)
(* netclip: a clipboard mirrored between hosts over UDP multicast.         *)
(*                                                                         *)
(* The model follows src/netclip.py: the class Clip, and the handlers of   *)
(* the class NetClip (on_clipboard_change, send_clip, on_clip_received,    *)
(* copy_clip) run by the single-threaded GLib main loop of each process.   *)
(* Every handler runs to completion, so each one is one action; an         *)
(* exception raised inside a handler ends it where it stands.              *)
(*                                                                         *)
(* Configuration is the argparse defaults of the program (integers for     *)
(* --count and --width); the history size is scaled down, see              *)
(* clip_max_count.  The desktop calls of on_clip_received (the icon file   *)
(* of the notification, Notify) are taken to return.                       *)
(*                                                                         *)
(* Text. A Python str is modelled run-length encoded: a sequence of runs   *)
(* [ch, n], n >= 1 repetitions of the character ch.  A bytes object is a   *)
(* sequence of runs [ch, n] too, n counting BYTES of the UTF-8 encoding of *)
(* repetitions of ch (n need not be a multiple of the width of ch once a   *)
(* datagram was cut).  With this the constants 1472 and 4096 of the source *)
(* keep their values.                                                      *)
(***************************************************************************)
EXTENDS Integers, Sequences, FiniteSets, Bags, TLC

(***************************************************************************)
(* Bounds of the model.                                                    *)
(***************************************************************************)
\* history size (--count, default 15 in the source), scaled down
clip_max_count == 2
\* clipboard changes made by the user of a process that runs alone
MaxCopies == 4
\* clipboard changes made by the users of two processes, together
MaxPeerCopies == 2
\* datagrams sent by hosts that are not modelled as processes
MaxInject == 4
\* clipboard changes and foreign datagrams, each, where both occur
MaxMixed == 1
\* datagrams waiting in the socket buffer of one process
MaxInFlight == 1
\* owner-change signals waiting in the main loop of one process
MaxPending == 1
\* clicks on menu items (toggles, clips to send, clips to copy)
MaxClicks == 1
\* times the user of a process ends the program
MaxQuits == 1
\* largest max_width of a clip whose label is computed
MaxLabelWidth == 10

(***************************************************************************)
(* Program constants.                                                      *)
(***************************************************************************)
\* Clip.get_text: self.text[:1472]
MSS == 1472
\* on_clip_received: self.sock.recvfrom(4096)
RecvBufSize == 4096
\* --width, default 30
menu_max_width == 30

\* the processes of the multicast group
Procs == {"A", "B"}
\* address of a host outside Procs
ForeignAddress == "F"

(***************************************************************************)
(* Strings and bytes.                                                      *)
(***************************************************************************)
\* a byte that occurs in no UTF-8 encoding
BadByte == "0xFF"

\* number of bytes of the UTF-8 encoding of a character
Width(ch) ==
    CASE ch = "U+00E9"  -> 2
      [] ch = "U+20AC"  -> 3
      [] ch = "U+1F600" -> 4
      [] OTHER          -> 1

Run(ch, n) == [ch |-> ch, n |-> n]

\* n repetitions of ch, as a str
Rep(ch, n) == IF n = 0 THEN <<>> ELSE <<Run(ch, n)>>

RECURSIVE StrLen(_)
\* len(s): characters of a str, bytes of a bytes object
StrLen(s) == IF s = <<>> THEN 0 ELSE Head(s).n + StrLen(Tail(s))

RECURSIVE Take(_, _)
\* s[:k] for k >= 0; also the cut recvfrom(k) makes of a longer datagram
Take(s, k) ==
    IF k <= 0 \/ s = <<>> THEN <<>>
    ELSE IF Head(s).n <= k THEN <<Head(s)>> \o Take(Tail(s), k - Head(s).n)
    ELSE <<Run(Head(s).ch, k)>>

\* bytes(text, 'utf-8')
encode_utf8(text) ==
    [i \in 1..Len(text) |-> Run(text[i].ch, text[i].n * Width(text[i].ch))]

\* a decoder that never raises
DecodeFails_never(data) == FALSE

\* data.decode('utf-8') raises UnicodeDecodeError
DecodeFails(data) ==
    \E i \in 1..Len(data) :
        \/ data[i].ch = BadByte
        \/ data[i].n % Width(data[i].ch) # 0

\* data.decode('utf-8'), where it does not raise
decode_utf8(data) ==
    [i \in 1..Len(data) |-> Run(data[i].ch, data[i].n \div Width(data[i].ch))]

(***************************************************************************)
(* class Clip                                                              *)
(***************************************************************************)
\* Clip.__init__
Clip(text, max_width) == [text |-> text, max_width |-> max_width]

\* Clip.__eq__: text == clip
ClipEq(clip, text) == text = clip.text

\* an accessor that returns the whole text
get_text_whole(clip) == clip.text

\* Clip.get_text
get_text(clip) == Take(clip.text, MSS)

RECURSIVE Chars(_)
\* a str character by character (labels are built from short texts)
Chars(text) ==
    IF text = <<>> THEN <<>>
    ELSE LET run == Head(text) IN
         <<run.ch>> \o Chars(Rep(run.ch, run.n - 1) \o Tail(text))

\* what str.strip() removes
Whitespace == {" ", "\n", "\t"}

\* s.replace("\n", " ")
replace_newlines(s) == [i \in 1..Len(s) |-> IF s[i] = "\n" THEN " " ELSE s[i]]

\* s.strip()
strip(s) ==
    LET keep == {i \in 1..Len(s) : s[i] \notin Whitespace} IN
    IF keep = {} THEN <<>>
    ELSE SubSeq(s, CHOOSE i \in keep : \A j \in keep : i <= j,
                   CHOOSE i \in keep : \A j \in keep : j <= i)

\* the index a slice bound k stands for in a sequence of length n: a
\* negative bound counts from the end, and every bound is clamped to 0..n
SliceIndex(k, n) ==
    IF k < 0 THEN (IF k + n < 0 THEN 0 ELSE k + n)
    ELSE (IF k > n THEN n ELSE k)

\* s[:k]
SliceTo(s, k) == SubSeq(s, 1, SliceIndex(k, Len(s)))

\* s[k:]
SliceFrom(s, k) == SubSeq(s, SliceIndex(k, Len(s)) + 1, Len(s))

\* int(w/2) for an integer w: the quotient rounded towards zero
IntHalf(w) == IF w >= 0 THEN w \div 2 ELSE -((-w) \div 2)

\* the characters between the two parts of a shortened label, as the source
\* file has them in line 65: U+00E2, U+20AC, U+00A6
LabelSeparator == <<"U+00E2", "U+20AC", "U+00A6">>

\* Clip.get_itemlabel
get_itemlabel(clip) ==
    LET trimmed == strip(replace_newlines(Chars(clip.text))) IN
    IF Len(trimmed) > clip.max_width
    THEN LET max_width == IntHalf(clip.max_width) - 1 IN
         SliceTo(trimmed, max_width) \o LabelSeparator
            \o SliceFrom(trimmed, -max_width)
    ELSE trimmed

(***************************************************************************)
(* Python lists                                                            *)
(***************************************************************************)
\* list.pop(): the list without its last element
ListPop(list) == SubSeq(list, 1, Len(list) - 1)

\* list.insert(0, x)
ListInsert0(list, x) == <<x>> \o list

\* list.remove(x): drops the first element equal to x (Clip == Clip compares
\* the texts, through Clip.__eq__ applied twice)
ListRemove(list, x) ==
    LET hits == {j \in 1..Len(list) : ClipEq(list[j], x.text)}
    IN  IF hits = {} THEN list
        ELSE LET j == CHOOSE m \in hits : \A o \in hits : m <= o
             IN  SubSeq(list, 1, j - 1) \o SubSeq(list, j + 1, Len(list))

\* a dedup loop that removes nothing
remove_duplicates_none(list, text, i) == list

RECURSIVE remove_duplicates(_, _, _)
\* for clip in list: if text == clip: list.remove(clip)
\* The list iterator is an index into the list being changed: after a
\* removal at index i the next element visited is the one that was at i+2.
remove_duplicates(list, text, i) ==
    IF i > Len(list) THEN list
    ELSE IF ClipEq(list[i], text)
         THEN remove_duplicates(ListRemove(list, list[i]), text, i + 1)
         ELSE remove_duplicates(list, text, i + 1)

\* a check for a repeat of the head that never finds one
same_as_last_never(list, text) == FALSE

\* self.clips and text == self.clips[0], the same for self.received_clips
same_as_last(list, text) == list # <<>> /\ ClipEq(list[1], text)

\* if len(list) > self.clip_max_count: list.pop()
cap_clips(list) == IF Len(list) > clip_max_count THEN ListPop(list) ELSE list

(***************************************************************************)
(* Inputs                                                                  *)
(***************************************************************************)
\* an optional value: None is {}, a value v is {v}
None == {}
Some(v) == {v}
TheValue(opt) == CHOOSE v \in opt : TRUE

\* texts the users put on a clipboard
UserTexts ==
    { Rep("x", 1),
      Rep("a", 2000),
      Rep("U+1F600", 1472) }

\* what wait_for_text() can return: None for a non-text selection, or a
\* str, the empty one included
ClipboardContents == {None, Some(<<>>)} \cup {Some(t) : t \in UserTexts}

\* datagrams of hosts outside Procs
ForeignData ==
    { <<>>,
      <<Run(BadByte, 1)>>,
      encode_utf8(Rep("x", 1)),
      encode_utf8(Rep("w", 1)),
      encode_utf8(Rep("a", 2000)) }

Datagram(data, address) == [data |-> data, address |-> address]

(***************************************************************************)
(* State                                                                   *)
(***************************************************************************)
VARIABLES
    \* self.clips: the clips copied locally, most recent first
    clips,
    \* self.received_clips: the clips received, most recent first
    received_clips,
    \* self.last_sent: None or the text handed to the socket last
    last_sent,
    \* self.autosend.get_active(), self.autoreceive.get_active()
    autosend, autoreceive,
    \* the menu items made by fill_menu: the clips a click sends or copies
    menu,
    \* the selection behind source_clipboard and destination_clipboard
    clipboard,
    \* 'owner-change' signals not handled yet
    pending,
    \* the GLib watch on the socket is installed
    watching,
    \* datagrams in the socket buffer of each process
    inbox,
    \* the processes whose main loop runs
    running,
    \* self.sock of each process: the descriptor is open, the socket is a
    \* member of the multicast group
    sock,
    \* what the environment may still do: clipboard changes by users,
    \* datagrams of foreign hosts, clicks on menu items
    budget,
    \* what the last step did: the handler, its input, the store it works
    \* on as it was before, the calls it made
    last

vars == <<clips, received_clips, last_sent, autosend, autoreceive, menu,
          clipboard, pending, watching, inbox, running, sock, budget, last>>

\* a step record with nothing in it; the steps fill in their part
NoStep ==
    [op |-> "init", proc |-> "-", text |-> None, dgram |-> None,
     before |-> <<>>, new |-> None, sent |-> <<>>, notified |-> <<>>,
     copied |-> <<>>, label |-> <<>>, ret |-> "None"]

\* NetClip.__init__ and the command line, for the processes of run
InitWith(run, bud) ==
    /\ clips = [p \in Procs |-> <<>>]
    /\ received_clips = [p \in Procs |-> <<>>]
    /\ last_sent = [p \in Procs |-> None]
    /\ autosend \in [Procs -> BOOLEAN]
    /\ autoreceive \in [Procs -> BOOLEAN]
    /\ \A p \in Procs \ run : ~autosend[p] /\ ~autoreceive[p]
    /\ menu = [p \in Procs |-> [send |-> <<>>, copy |-> <<>>]]
    /\ clipboard = [p \in Procs |-> None]
    /\ pending = [p \in Procs |-> 0]
    /\ watching = [p \in Procs |-> TRUE]
    /\ inbox = [p \in Procs |-> EmptyBag]
    /\ running = run
    /\ sock = [p \in Procs |-> [open |-> p \in run, member |-> p \in run]]
    /\ budget = bud
    /\ last = NoStep

(***************************************************************************)
(* The network                                                             *)
(***************************************************************************)
\* a datagram sent to the group reaches the socket of every member, the
\* sender included; a full socket buffer loses it
Multicast(inb, dg) ==
    [q \in Procs |->
        IF sock[q].member /\ BagCardinality(inb[q]) < MaxInFlight
        THEN inb[q] (+) SetToBag({dg})
        ELSE inb[q]]

\* a host outside Procs sends a datagram to the group
ForeignSend(data) ==
    /\ budget.injects > 0
    /\ budget' = [budget EXCEPT !.injects = @ - 1]
    /\ inbox' = Multicast(inbox, Datagram(data, ForeignAddress))
    /\ last' = [NoStep EXCEPT !.op = "foreign_send",
                              !.dgram = Some(Datagram(data, ForeignAddress))]
    /\ UNCHANGED <<clips, received_clips, last_sent, autosend, autoreceive,
                   menu, clipboard, pending, watching, running, sock>>

\* the network loses a datagram on its way to p
Lose(p) ==
    \E dg \in BagToSet(inbox[p]) :
    /\ inbox' = [inbox EXCEPT ![p] = @ (-) SetToBag({dg})]
    /\ last' = [NoStep EXCEPT !.op = "lose", !.proc = p, !.dgram = Some(dg)]
    /\ UNCHANGED <<clips, received_clips, last_sent, autosend, autoreceive,
                   menu, clipboard, pending, watching, running, sock, budget>>

(***************************************************************************)
(* The desktop                                                             *)
(***************************************************************************)
\* one more click on a menu item
Click(p) ==
    /\ p \in running
    /\ budget.clicks > 0
    /\ budget' = [budget EXCEPT !.clicks = @ - 1]

\* one more 'owner-change' signal for p
Signal(pend, p) ==
    [pend EXCEPT ![p] = IF @ < MaxPending THEN @ + 1 ELSE @]

\* the user of p copies something: the selection changes owner
UserCopy(p, content) ==
    /\ p \in running
    /\ budget.copies > 0
    /\ budget' = [budget EXCEPT !.copies = @ - 1]
    /\ clipboard' = [clipboard EXCEPT ![p] = content]
    /\ pending' = Signal(pending, p)
    /\ last' = [NoStep EXCEPT !.op = "user_copy", !.proc = p, !.text = content]
    /\ UNCHANGED <<clips, received_clips, last_sent, autosend, autoreceive,
                   menu, watching, inbox, running, sock>>

\* the user of p clicks a check menu item
ToggleAutosend(p) ==
    /\ Click(p)
    /\ autosend' = [autosend EXCEPT ![p] = ~@]
    /\ last' = [NoStep EXCEPT !.op = "toggle_autosend", !.proc = p]
    /\ UNCHANGED <<clips, received_clips, last_sent, autoreceive, menu,
                   clipboard, pending, watching, inbox, running, sock>>

ToggleAutoreceive(p) ==
    /\ Click(p)
    /\ autoreceive' = [autoreceive EXCEPT ![p] = ~@]
    /\ last' = [NoStep EXCEPT !.op = "toggle_autoreceive", !.proc = p]
    /\ UNCHANGED <<clips, received_clips, last_sent, autosend, menu,
                   clipboard, pending, watching, inbox, running, sock>>

(***************************************************************************)
(* class NetClip                                                           *)
(***************************************************************************)
\* fill_menu: one item per clip of self.clips and of self.received_clips
fill_menu(cl, rc) == [send |-> cl, copy |-> rc]

\* a check menu item that always reads as active
get_active_always(toggle, p) == TRUE

\* Gtk.CheckMenuItem.get_active() of the item of p
get_active(toggle, p) == toggle[p]

\* send_clip: the bytes handed to sendto.  send_clip sets self.last_sent
\* before it calls sendto, which may raise OSError.
SendPayload(clip) == encode_utf8(get_text(clip))

\* a loop check that never recognises the own message
is_own_message_never(sent, text) == FALSE

\* self.last_sent == text
is_own_message(sent, text) == sent = Some(text)

\* NetClip.on_clipboard_change
on_clipboard_change(p) ==
    /\ p \in running
    /\ pending[p] > 0
    /\ pending' = [pending EXCEPT ![p] = @ - 1]
    /\ LET content == clipboard[p]
           step == [NoStep EXCEPT !.op = "on_clipboard_change", !.proc = p,
                                  !.text = content, !.before = clips[p]]
       IN
       IF content = None \/ content = Some(<<>>)
       THEN \* if not text: return False
            /\ last' = [step EXCEPT !.ret = "False"]
            /\ UNCHANGED <<clips, received_clips, last_sent, menu, inbox>>
       ELSE
       LET text == TheValue(content) IN
       IF same_as_last(clips[p], text)
       THEN \* same as the last one: return False
            /\ last' = [step EXCEPT !.ret = "False"]
            /\ UNCHANGED <<clips, received_clips, last_sent, menu, inbox>>
       ELSE
       LET clip == Clip(text, menu_max_width)
           inserted == ListInsert0(remove_duplicates(clips[p], text, 1), clip)
           capped == cap_clips(inserted)
           sending == [payload |-> SendPayload(clip), ok |-> TRUE]
       IN
       IF ~get_active(autosend, p)
       THEN /\ clips' = [clips EXCEPT ![p] = capped]
            /\ menu' = [menu EXCEPT ![p] = fill_menu(capped, received_clips[p])]
            /\ last' = [step EXCEPT !.new = Some(clip), !.ret = "True"]
            /\ UNCHANGED <<received_clips, last_sent, inbox>>
       ELSE
            /\ last_sent' = [last_sent EXCEPT ![p] = Some(get_text(clip))]
            /\ \/ \* sendto returns
                  /\ clips' = [clips EXCEPT ![p] = capped]
                  /\ menu' = [menu EXCEPT ![p] =
                                 fill_menu(capped, received_clips[p])]
                  /\ inbox' = Multicast(inbox,
                                        Datagram(SendPayload(clip), p))
                  /\ last' = [step EXCEPT !.new = Some(clip),
                                          !.sent = <<sending>>,
                                          !.ret = "True"]
               \/ \* sendto raises: the handler ends after the insert
                  /\ clips' = [clips EXCEPT ![p] = inserted]
                  /\ last' = [step EXCEPT
                                 !.new = Some(clip),
                                 !.sent = <<[sending EXCEPT !.ok = FALSE]>>,
                                 !.ret = "raise"]
                  /\ UNCHANGED <<menu, inbox>>
            /\ UNCHANGED received_clips
    /\ UNCHANGED <<autosend, autoreceive, clipboard, watching, running, sock,
                   budget>>

\* NetClip.send_clip, from the click on item i of the first menu group
send_clip(p, i) ==
    /\ Click(p)
    /\ i \in 1..Len(menu[p].send)
    /\ LET clip == menu[p].send[i]
           sending == [payload |-> SendPayload(clip), ok |-> TRUE]
           step == [NoStep EXCEPT !.op = "send_clip", !.proc = p,
                                  !.text = Some(clip.text)]
       IN
       /\ last_sent' = [last_sent EXCEPT ![p] = Some(get_text(clip))]
       /\ \/ /\ inbox' = Multicast(inbox, Datagram(SendPayload(clip), p))
             /\ last' = [step EXCEPT !.sent = <<sending>>, !.ret = "int"]
          \/ /\ last' = [step EXCEPT
                            !.sent = <<[sending EXCEPT !.ok = FALSE]>>,
                            !.ret = "raise"]
             /\ UNCHANGED inbox
    /\ UNCHANGED <<clips, received_clips, autosend, autoreceive, menu,
                   clipboard, pending, watching, running, sock>>

\* a copy_clip that also records the clip in self.clips itself
copy_clip_recording(p, i) ==
    /\ Click(p)
    /\ i \in 1..Len(menu[p].copy)
    /\ LET clip == menu[p].copy[i] IN
       /\ clipboard' = [clipboard EXCEPT ![p] = Some(get_text(clip))]
       /\ clips' = [clips EXCEPT ![p] = cap_clips(ListInsert0(@, clip))]
       /\ pending' = Signal(pending, p)
       /\ last' = [NoStep EXCEPT !.op = "copy_clip", !.proc = p,
                                 !.text = Some(clip.text),
                                 !.copied = <<get_text(clip)>>]
    /\ UNCHANGED <<received_clips, last_sent, autosend, autoreceive,
                   menu, watching, inbox, running, sock>>

\* NetClip.copy_clip, from the click on item i of the second menu group
copy_clip(p, i) ==
    /\ Click(p)
    /\ i \in 1..Len(menu[p].copy)
    /\ LET clip == menu[p].copy[i] IN
       /\ clipboard' = [clipboard EXCEPT ![p] = Some(get_text(clip))]
       /\ pending' = Signal(pending, p)
       /\ last' = [NoStep EXCEPT !.op = "copy_clip", !.proc = p,
                                 !.text = Some(clip.text),
                                 !.copied = <<get_text(clip)>>]
    /\ UNCHANGED <<clips, received_clips, last_sent, autosend, autoreceive,
                   menu, watching, inbox, running, sock>>

\* a receive buffer of one byte
recvfrom_one(dg) == Take(dg.data, 1)

\* self.sock.recvfrom(4096): the first 4096 bytes of the datagram, the rest
\* is discarded
recvfrom(dg) == Take(dg.data, RecvBufSize)

\* a notification that does not name the sender
Notification_anonymous(clip, address, auto) ==
    [clip |-> clip, address |-> "-", auto |-> auto]

\* on_clip_received: the Notify.Notification shown for a received clip; its
\* title names the sender, and says whether the clip was copied
Notification(clip, address, auto) ==
    [clip |-> clip, address |-> address, auto |-> auto]

\* NetClip.on_clip_received, called by the GLib watch for one datagram of
\* the socket buffer (UDP keeps no order).  A return value of False, and
\* an exception, remove the watch.
on_clip_received(p) ==
    \E dg \in BagToSet(inbox[p]) :
    /\ p \in running
    /\ watching[p]
    /\ inbox' = [inbox EXCEPT ![p] = @ (-) SetToBag({dg})]
    /\ LET data == recvfrom(dg)
           step == [NoStep EXCEPT !.op = "on_clip_received", !.proc = p,
                                  !.dgram = Some(dg),
                                  !.before = received_clips[p]]
       IN
       IF DecodeFails(data)
       THEN \* data.decode raises UnicodeDecodeError
            /\ watching' = [watching EXCEPT ![p] = FALSE]
            /\ last' = [step EXCEPT !.ret = "raise"]
            /\ UNCHANGED <<received_clips, menu, clipboard, pending>>
       ELSE
       LET text == decode_utf8(data)
           seen == [step EXCEPT !.text = Some(text)]
       IN
       IF is_own_message(last_sent[p], text)
       THEN \* our own message: return True
            /\ last' = [seen EXCEPT !.ret = "True"]
            /\ UNCHANGED <<received_clips, menu, clipboard, pending, watching>>
       ELSE IF text = <<>>
       THEN \* if not text: return False
            /\ watching' = [watching EXCEPT ![p] = FALSE]
            /\ last' = [seen EXCEPT !.ret = "False"]
            /\ UNCHANGED <<received_clips, menu, clipboard, pending>>
       ELSE IF same_as_last(received_clips[p], text)
       THEN \* same as the last one: return False
            /\ watching' = [watching EXCEPT ![p] = FALSE]
            /\ last' = [seen EXCEPT !.ret = "False"]
            /\ UNCHANGED <<received_clips, menu, clipboard, pending>>
       ELSE
       LET deduped == remove_duplicates(received_clips[p], text, 1)
           clip == Clip(text, menu_max_width)
           capped == cap_clips(ListInsert0(deduped, clip))
           note == Notification(clip, dg.address,
                                get_active(autoreceive, p))
       IN
       /\ IF get_active(autoreceive, p)
          THEN \* self.copy_clip(self, clip)
               /\ clipboard' = [clipboard EXCEPT ![p] = Some(get_text(clip))]
               /\ pending' = Signal(pending, p)
               /\ last' = [seen EXCEPT !.new = Some(clip),
                                       !.copied = <<get_text(clip)>>,
                                       !.notified = <<note>>,
                                       !.ret = "True"]
          ELSE /\ last' = [seen EXCEPT !.new = Some(clip),
                                       !.notified = <<note>>,
                                       !.ret = "True"]
               /\ UNCHANGED <<clipboard, pending>>
       /\ received_clips' = [received_clips EXCEPT ![p] = capped]
       /\ menu' = [menu EXCEPT ![p] = fill_menu(clips[p], capped)]
       /\ UNCHANGED watching
    /\ UNCHANGED <<clips, last_sent, autosend, autoreceive, running, sock, budget>>

\* NetClip.quit: Notify.uninit() and Gtk.main_quit(); Gtk.main() returns
\* and the script is at its end.  Nothing here touches self.sock.
quit(p) ==
    /\ running' = running \ {p}
    /\ UNCHANGED <<clips, received_clips, last_sent, autosend, autoreceive,
                   menu, clipboard, pending, watching, inbox, sock>>

\* the user of p ends the program
Leave(p) ==
    /\ p \in running
    /\ budget.quits > 0
    /\ budget' = [budget EXCEPT !.quits = @ - 1]

\* the Quit menu item: item.connect('activate', self.quit)
quit_item(p) ==
    /\ Leave(p)
    /\ quit(p)
    /\ last' = [NoStep EXCEPT !.op = "quit_item", !.proc = p]

\* Ctrl-C: the handler installed for SIGINT calls NETCLIP.quit(None)
SIGINT(p) ==
    /\ Leave(p)
    /\ quit(p)
    /\ last' = [NoStep EXCEPT !.op = "SIGINT", !.proc = p]

(***************************************************************************)
(* Specification                                                           *)
(***************************************************************************)
Next ==
    \/ \E p \in Procs, content \in ClipboardContents : UserCopy(p, content)
    \/ \E p \in Procs : on_clipboard_change(p)
    \/ \E p \in Procs, i \in 1..(clip_max_count + 1) : send_clip(p, i)
    \/ \E p \in Procs, i \in 1..(clip_max_count + 1) : copy_clip(p, i)
    \/ \E p \in Procs : on_clip_received(p)
    \/ \E p \in Procs : ToggleAutosend(p)
    \/ \E p \in Procs : ToggleAutoreceive(p)
    \/ \E data \in ForeignData : ForeignSend(data)
    \/ \E p \in Procs : Lose(p)
    \/ \E p \in Procs : quit_item(p)
    \/ \E p \in Procs : SIGINT(p)

\* The environments explored: which processes run and what the users and
\* the foreign hosts do at most.
Scenarios ==
    { \* one process, its user copies and clicks
      [run |-> {"A"}, copies |-> MaxCopies, injects |-> 0,
       clicks |-> MaxClicks, quits |-> 0],
      \* one process, foreign hosts send, its user clicks
      [run |-> {"A"}, copies |-> 0, injects |-> MaxInject,
       clicks |-> MaxClicks, quits |-> 0],
      \* one process, all of it, until its user ends it
      [run |-> {"A"}, copies |-> MaxMixed, injects |-> MaxMixed,
       clicks |-> MaxClicks, quits |-> MaxQuits],
      \* two processes, their users copy
      [run |-> Procs, copies |-> MaxPeerCopies, injects |-> 0, clicks |-> 0,
       quits |-> 0] }

Init ==
    \E sc \in Scenarios :
        InitWith(sc.run, [copies |-> sc.copies, injects |-> sc.injects,
                          clicks |-> sc.clicks, quits |-> sc.quits])

Spec == Init /\ [][Next]_vars

(***************************************************************************)
(* Two peers with auto-send and auto-receive enabled.  The main loop of a  *)
(* process dispatches every signal that is pending and every datagram that *)
(* its watch waits for, so the two handlers are weakly fair; the users and *)
(* the network (loss) are not.                                             *)
(***************************************************************************)
PeerInit ==
    /\ InitWith(Procs, [copies |-> MaxPeerCopies, injects |-> 0,
                        clicks |-> 0, quits |-> 0])
    /\ \A p \in Procs : autosend[p] /\ autoreceive[p]

PeerNext ==
    \/ \E p \in Procs, content \in ClipboardContents : UserCopy(p, content)
    \/ \E p \in Procs : on_clipboard_change(p)
    \/ \E p \in Procs : on_clip_received(p)
    \/ \E p \in Procs : Lose(p)

PeerSpec ==
    /\ PeerInit
    /\ [][PeerNext]_vars
    /\ \A p \in Procs : WF_vars(on_clipboard_change(p))
    /\ \A p \in Procs : WF_vars(on_clip_received(p))

(***************************************************************************)
(* Labels: a process holds one Clip(text, max_width), for the texts and    *)
(* the integer max_width below; fill_menu computes the label of its item.  *)
(***************************************************************************)
RECURSIVE Str(_)
\* the str made of the characters
Str(chars) ==
    IF chars = <<>> THEN <<>>
    ELSE LET rest == Str(Tail(chars)) IN
         IF rest # <<>> /\ rest[1].ch = Head(chars)
         THEN <<Run(Head(chars), rest[1].n + 1)>> \o Tail(rest)
         ELSE <<Run(Head(chars), 1)>> \o rest

\* texts of clips whose labels are computed
LabelTexts ==
    { Str(<<"a", "b", "c", "d", "e", "f", "g", "h", "i", "j", "k", "l", "m",
            "n", "o">>),
      Str(<<"a", "b", "c", "d", "e", "f", "g", "h", "i", "j", "k">>),
      Str(<<"a", "b", "c", "d", "e">>),
      Str(<<"a", "b", "c">>),
      Str(<<"a", "b">>),
      Str(<<"a">>),
      Str(<<" ", "a", "\n", "b", "c", "d", "e", " ", "\n">>),
      Str(<<"a", "\n", "\n", "b", " ", "c", "\t">>),
      Str(<<"\n", " ", "\n">>),
      Str(<<"a", "a", "a", "a", "a", "a", "a", "a">>) }

\* the values of max_width tried
LabelWidths == 0..MaxLabelWidth

LabelInit ==
    \E text \in LabelTexts, width \in LabelWidths :
        /\ clips = [p \in Procs |->
                       IF p = "A" THEN <<Clip(text, width)>> ELSE <<>>]
        /\ received_clips = [p \in Procs |-> <<>>]
        /\ last_sent = [p \in Procs |-> None]
        /\ autosend = [p \in Procs |-> FALSE]
        /\ autoreceive = [p \in Procs |-> FALSE]
        /\ menu = [p \in Procs |-> fill_menu(clips[p], <<>>)]
        /\ clipboard = [p \in Procs |-> IF p = "A" THEN Some(text) ELSE None]
        /\ pending = [p \in Procs |-> 0]
        /\ watching = [p \in Procs |-> TRUE]
        /\ inbox = [p \in Procs |-> EmptyBag]
        /\ running = {"A"}
        /\ sock = [p \in Procs |-> [open |-> p = "A", member |-> p = "A"]]
        /\ budget = [copies |-> 0, injects |-> 0, clicks |-> 0, quits |-> 0]
        /\ last = NoStep

\* fill_menu, line 162: the label of the menu item made for clip i
menu_item_label(p, i) ==
    /\ p \in running
    /\ i \in 1..Len(clips[p])
    /\ last' = [NoStep EXCEPT !.op = "get_itemlabel", !.proc = p,
                              !.text = Some(clips[p][i].text),
                              !.new = Some(clips[p][i]),
                              !.label = get_itemlabel(clips[p][i])]
    /\ UNCHANGED <<clips, received_clips, last_sent, autosend, autoreceive,
                   menu, clipboard, pending, watching, inbox, running, sock,
                   budget>>

LabelNext == \E p \in Procs, i \in 1..clip_max_count : menu_item_label(p, i)

LabelSpec == LabelInit /\ [][LabelNext]_vars

(***************************************************************************)
(* Properties                                                              *)
(***************************************************************************)
\* the step just taken ran the handler op in process p
Ran(op, p) == last'.op = op /\ last'.proc = p

\* no two clips of the list have the same text
NoDuplicates(list) ==
    \A i, j \in 1..Len(list) : i # j => list[i].text # list[j].text

\* how often the text occurs in the list
Occurrences(list, text) == Cardinality({i \in 1..Len(list) : list[i].text = text})

\* the store the handler of the last step records into
StoreOf(step) ==
    IF step.op = "on_clipboard_change" THEN clips[step.proc]
    ELSE received_clips[step.proc]

\* C1: in every reachable state both stores of every process hold at most
\* clip_max_count clips, also after a handler whose auto-send failed.
C1_Capacity ==
    \A p \in Procs :
        /\ Len(clips[p]) <= clip_max_count
        /\ Len(received_clips[p]) <= clip_max_count

\* C2: in every reachable state no store holds two clips with the same
\* text, and a clip just recorded is the head of its store and the only
\* clip with its text there.
C2_NoDuplicates ==
    /\ \A p \in Procs : NoDuplicates(clips[p]) /\ NoDuplicates(received_clips[p])
    /\ last.new # None =>
          LET clip == TheValue(last.new)
              store == StoreOf(last)
          IN  /\ store # <<>>
              /\ store[1] = clip
              /\ Occurrences(store, clip.text) = 1

\* C2 witness: a text that was further down in a store was recorded again
\* (the loop removed it while iterating) and is now the head, once.
C2_Witness ==
    /\ last.new # None
    /\ last.op = "on_clip_received"
    /\ Len(last.before) = clip_max_count
    /\ \E i \in 2..Len(last.before) :
          last.before[i].text = TheValue(last.new).text

\* C3: the receive loop is never aborted by a message: the watch that calls
\* on_clip_received stays installed in every running process, so the next
\* datagram is handled too.
C3_LoopNeverAborted == \A p \in running : watching[p]

\* the handler of the step just taken made no call and recorded nothing
Quiet ==
    /\ UNCHANGED <<clips, received_clips, last_sent, clipboard, menu>>
    /\ last'.new = None
    /\ last'.sent = <<>>
    /\ last'.notified = <<>>
    /\ last'.copied = <<>>

\* the text is the text of the first clip of the list
IsHead(list, text) == list # <<>> /\ list[1].text = text

\* C4: a datagram whose decoded text is the current last_sent is ignored,
\* whoever sent it: stores and last_sent unchanged, no notification, no
\* copy; a datagram whose text is not empty, is not last_sent and is not the
\* head of received_clips is accepted and becomes the head.
C4_LoopSuppression ==
    [][\A p \in Procs :
          (Ran("on_clip_received", p) /\ last'.text # None) =>
             LET text == TheValue(last'.text) IN
             /\ last_sent[p] = Some(text) => Quiet
             /\ (/\ text # <<>>
                 /\ last_sent[p] # Some(text)
                 /\ ~IsHead(received_clips[p], text))
                => IsHead(received_clips'[p], text)]_vars

\* C4 witness: a process ignored the datagram of another host that carries
\* the text the process sent last.
C4_Witness ==
    /\ last.op = "on_clip_received"
    /\ last.text # None
    /\ last.text = last_sent[last.proc]
    /\ TheValue(last.dgram).address # last.proc
    /\ last.new = None

\* C5: a clipboard change to the text of the head of clips, and a datagram
\* with the text of the head of received_clips, change neither store nor
\* last_sent, and send, notify and copy nothing.
C5_HeadRepeatNoOp ==
    [][\A p \in Procs :
          /\ (/\ Ran("on_clipboard_change", p)
              /\ clipboard[p] # None
              /\ IsHead(clips[p], TheValue(clipboard[p]))) => Quiet
          /\ (/\ Ran("on_clip_received", p)
              /\ last'.text # None
              /\ IsHead(received_clips[p], TheValue(last'.text))) => Quiet]_vars

\* C5 witness: the clipboard changed to the text of the head of clips while
\* auto-send was enabled.
C5_Witness ==
    /\ last.op = "on_clipboard_change"
    /\ last.text # None
    /\ IsHead(last.before, TheValue(last.text))
    /\ autosend[last.proc]
    /\ Len(last.before) = clip_max_count

\* the list without the clips of the text
Without(list, text) == SelectSeq(list, LAMBDA c : c.text # text)

\* C6: recording a text that is in the store at a position other than the
\* head gives the store with that text first, once, of the same length, the
\* other clips in their order.
C6_MoveToFront ==
    (/\ last.new # None
     /\ \E i \in 2..Len(last.before) :
           last.before[i].text = TheValue(last.new).text)
    => /\ StoreOf(last) =
             <<TheValue(last.new)>> \o
             Without(last.before, TheValue(last.new).text)
       /\ Len(StoreOf(last)) = Len(last.before)

\* C7: recording a text that is not in a store of clip_max_count clips
\* removes the last clip, puts the new one first and keeps the others in
\* their order; recording it into a shorter store removes nothing.
C7_Eviction ==
    (/\ last.new # None
     /\ Occurrences(last.before, TheValue(last.new).text) = 0)
    => /\ Len(last.before) = clip_max_count =>
             StoreOf(last) = <<TheValue(last.new)>> \o
                             SubSeq(last.before, 1, clip_max_count - 1)
       /\ Len(last.before) < clip_max_count =>
             StoreOf(last) = <<TheValue(last.new)>> \o last.before

\* C8: every payload handed to sendto is at most 1472 bytes long, and it is
\* the same payload whenever the same clip is sent.
C8_WireSizeBound ==
    \A i \in 1..Len(last.sent) :
        /\ StrLen(last.sent[i].payload) <= MSS
        /\ last.sent[i].payload = encode_utf8(Take(TheValue(last.text), MSS))

\* C9: a process with auto-send that records a new local text hands the
\* wire payload of the text to sendto; a process that handles the datagram
\* of another process, and whose last_sent and head of received_clips differ
\* from the text sent, has that text as the head of received_clips
\* afterwards and notified it exactly once.
C9_EndToEnd ==
    /\ (/\ last.op = "on_clipboard_change"
        /\ last.new # None
        /\ autosend[last.proc])
       => /\ Len(last.sent) = 1
          /\ last.sent[1].payload =
                encode_utf8(Take(TheValue(last.new).text, MSS))
    /\ (/\ last.op = "on_clip_received"
        /\ TheValue(last.dgram).address \in Procs \ {last.proc})
       => LET text == decode_utf8(TheValue(last.dgram).data) IN
          (/\ last_sent[last.proc] # Some(text)
           /\ ~IsHead(last.before, text))
          => /\ IsHead(received_clips[last.proc], text)
             /\ Len(last.notified) = 1
             /\ last.notified[1].clip.text = text

\* C10: on_clipboard_change calls sendto and sets last_sent exactly when it
\* recorded a new clip while auto-send is enabled, once and with that clip;
\* a click on a clip to send calls sendto with that clip whatever the
\* toggles are.
C10_TogglesGateAutomatic ==
    [][\A p \in Procs :
          /\ Ran("on_clipboard_change", p) =>
                IF last'.new # None /\ autosend[p]
                THEN /\ Len(last'.sent) = 1
                     /\ last'.sent[1].payload =
                           encode_utf8(Take(TheValue(last'.new).text, MSS))
                     /\ last_sent'[p] =
                           Some(Take(TheValue(last'.new).text, MSS))
                ELSE /\ last'.sent = <<>>
                     /\ UNCHANGED last_sent
          /\ Ran("send_clip", p) =>
                /\ Len(last'.sent) = 1
                /\ last'.sent[1].payload =
                      encode_utf8(Take(TheValue(last'.text), MSS))]_vars

\* C10 witness: a new clip was recorded while auto-send was disabled and
\* nothing was sent.
C10_Witness ==
    /\ last.op = "on_clipboard_change"
    /\ last.new # None
    /\ ~autosend[last.proc]
    /\ last.sent = <<>>

\* C11: a datagram that on_clip_received records as a new clip is notified
\* exactly once, with that clip and the address of its sender, and the clip
\* is copied to the clipboard exactly when auto-receive is enabled at that
\* moment; a datagram that is ignored is neither notified nor copied.
C11_ReceivedSignalling ==
    [][\A p \in Procs :
          Ran("on_clip_received", p) =>
             IF received_clips'[p] # received_clips[p]
             THEN /\ last'.new # None
                  /\ received_clips'[p][1] = TheValue(last'.new)
                  /\ Len(last'.notified) = 1
                  /\ last'.notified[1].clip = TheValue(last'.new)
                  /\ last'.notified[1].address = TheValue(last'.dgram).address
                  /\ last'.notified[1].auto = autoreceive[p]
                  /\ IF autoreceive[p]
                     THEN /\ Len(last'.copied) = 1
                          /\ clipboard'[p] = Some(last'.copied[1])
                     ELSE /\ last'.copied = <<>>
                          /\ UNCHANGED clipboard
             ELSE /\ last'.new = None
                  /\ last'.notified = <<>>
                  /\ last'.copied = <<>>
                  /\ UNCHANGED clipboard]_vars

\* C11 witness: the datagram of a foreign host was recorded while
\* auto-receive was disabled: notified with the sender, not copied.
C11_Witness ==
    /\ last.op = "on_clip_received"
    /\ last.new # None
    /\ TheValue(last.dgram).address = ForeignAddress
    /\ ~autoreceive[last.proc]
    /\ Len(last.notified) = 1
    /\ last.copied = <<>>

\* C12: copy_clip hands the clipboard exactly the text stored in the clip,
\* from a click on a received clip and from auto-receive alike, also when
\* the clip was recorded from a datagram with more than 1472 characters.
C12_CopyExactText ==
    /\ last.op = "copy_clip" => last.copied = <<TheValue(last.text)>>
    /\ (last.op = "on_clip_received" /\ last.copied # <<>>)
          => last.copied = <<TheValue(last.new).text>>

\* the first k and the last k elements of a sequence, none for k <= 0
FirstChars(s, k) == IF k <= 0 THEN <<>> ELSE SubSeq(s, 1, k)
LastChars(s, k) == IF k <= 0 THEN <<>> ELSE SubSeq(s, Len(s) - k + 1, Len(s))

\* C13: for every text and width the label of a clip is the normalized
\* text if that has at most width characters, and otherwise its first
\* floor(width/2)-1 characters, one ellipsis character U+2026 and its last
\* floor(width/2)-1 characters; this includes the widths for which
\* floor(width/2)-1 is 0 or negative.
C13_LabelShortening ==
    last.op = "get_itemlabel" =>
       LET clip == TheValue(last.new)
           normalized == strip(replace_newlines(Chars(clip.text)))
           k == (clip.max_width \div 2) - 1
       IN  IF Len(normalized) > clip.max_width
           THEN last.label = FirstChars(normalized, k) \o <<"U+2026">>
                                \o LastChars(normalized, k)
           ELSE last.label = normalized

\* C14: a failure of sendto during auto-send does not corrupt the store:
\* after on_clipboard_change recorded a new clip and its send failed, clips
\* holds at most clip_max_count clips and no text twice, as it would had
\* the send succeeded.
C14_SendFailureIsolated ==
    (/\ last.op = "on_clipboard_change"
     /\ last.new # None
     /\ last.sent # <<>>
     /\ ~last.sent[1].ok)
    => /\ Len(clips[last.proc]) <= clip_max_count
       /\ NoDuplicates(clips[last.proc])
       /\ clips[last.proc] = cap_clips(<<TheValue(last.new)>> \o
                                Without(last.before, TheValue(last.new).text))

\* C15: a datagram that is not valid UTF-8, or that is empty, changes
\* nothing: clips, received_clips and last_sent (and with them the menu and
\* the clipboard) stay as they are, and nothing is notified or copied.
C15_InvalidDatagramIgnored ==
    [][\A p \in Procs :
          (/\ Ran("on_clip_received", p)
           /\ LET data == TheValue(last'.dgram).data IN
              \/ data = <<>>
              \/ \E i \in 1..Len(data) : data[i].ch = BadByte)
          => Quiet]_vars

\* C15 witness: a process that holds a received clip handled a datagram
\* that is not UTF-8.
C15_Witness ==
    /\ last.op = "on_clip_received"
    /\ TheValue(last.dgram).data = <<Run(BadByte, 1)>>
    /\ last.before # <<>>
    /\ received_clips[last.proc] = last.before
    /\ last.notified = <<>>

\* the step just taken called sendto in process p
Sends(p) == last'.proc = p /\ last'.sent # <<>>

\* send_clip changes nothing but last_sent (and what the network holds)
OnlyLastSent ==
    \A p \in Procs :
        Ran("send_clip", p) =>
            UNCHANGED <<clips, received_clips, menu, clipboard, autosend,
                        autoreceive>>

\* C16: last_sent is None until the first send; from then on it is the
\* text of the wire payload that the process actually transmitted last (a
\* sendto that returned), and a step changes it in no other way; send_clip
\* changes nothing else.
C16_LastSentTracksTransmissions ==
    [][/\ \A p \in Procs :
             /\ last.op = "init" => last_sent[p] = None
             /\ IF Sends(p) /\ last'.sent[1].ok
                THEN /\ last_sent'[p] # None
                     /\ encode_utf8(TheValue(last_sent'[p])) =
                           last'.sent[1].payload
                ELSE last_sent'[p] = last_sent[p]
       /\ OnlyLastSent]_vars

\* C16 amended: last_sent is None until the first send; from then on it is
\* the text of the wire payload handed to sendto last, whether that call
\* returned or raised, and a step changes it in no other way; send_clip
\* changes nothing else.
C16_LastSentTracksSends ==
    [][/\ \A p \in Procs :
             /\ last.op = "init" => last_sent[p] = None
             /\ IF Sends(p)
                THEN /\ last_sent'[p] = Some(Take(TheValue(last'.text), MSS))
                     /\ encode_utf8(TheValue(last_sent'[p])) =
                           last'.sent[1].payload
                ELSE last_sent'[p] = last_sent[p]
       /\ OnlyLastSent]_vars

\* C16 witness: a click sent a clip of more than 1472 characters, sendto
\* raised, and last_sent is the capped text of that clip.
C16_Witness ==
    /\ last.op = "send_clip"
    /\ ~last.sent[1].ok
    /\ StrLen(TheValue(last.text)) > MSS
    /\ last_sent[last.proc] = Some(Take(TheValue(last.text), MSS))

\* C17: on every exit path, the Quit menu item and SIGINT, once the main
\* loop of a process has stopped its socket has been closed and has left
\* the multicast group: no process is stopped with its socket open.
C17_ShutdownReleasesTransport ==
    \A p \in Procs \ running : ~sock[p].open /\ ~sock[p].member

\* C18: on_clip_received never changes clips or last_sent and never calls
\* sendto; on_clipboard_change never changes received_clips; clips changes
\* only in on_clipboard_change, by the text on the local clipboard, and
\* received_clips only in on_clip_received, by the text of the datagram.
C18_StoreIndependence ==
    [][\A p \in Procs :
          /\ Ran("on_clip_received", p) =>
                /\ clips' = clips
                /\ last_sent' = last_sent
                /\ last'.sent = <<>>
                /\ inbox'[p] = inbox[p] (-) SetToBag({TheValue(last'.dgram)})
                /\ \A q \in Procs \ {p} : inbox'[q] = inbox[q]
          /\ Ran("on_clipboard_change", p) => received_clips' = received_clips
          /\ clips'[p] # clips[p] =>
                /\ Ran("on_clipboard_change", p)
                /\ clipboard[p] # None
                /\ IsHead(clips'[p], TheValue(clipboard[p]))
          /\ received_clips'[p] # received_clips[p] =>
                /\ Ran("on_clip_received", p)
                /\ IsHead(received_clips'[p],
                          decode_utf8(Take(TheValue(last'.dgram).data,
                                           RecvBufSize)))]_vars

\* C18 witness: a text that came over the network and was copied to the
\* clipboard entered clips through on_clipboard_change, and received_clips
\* still holds it.
C18_Witness ==
    /\ last.op = "on_clipboard_change"
    /\ last.new # None
    /\ IsHead(received_clips[last.proc], TheValue(last.new).text)
    /\ IsHead(clips[last.proc], TheValue(last.new).text)

\* the step just taken handled, in process p, a datagram that p sent
OwnEcho(p) ==
    Ran("on_clip_received", p) /\ TheValue(last'.dgram).address = p

\* C19: a datagram that a process transmitted is never recorded in the
\* received_clips of that process, whatever it sent in between and however
\* late the datagram arrives (send X, send Y, then the echo of X).
C19_NoSelfEcho ==
    [][\A p \in Procs : OwnEcho(p) => Quiet]_vars

\* C19 amended: a datagram that a process transmitted is never recorded in
\* the received_clips of that process if the text decoded from it is the
\* last_sent of the process when it arrives; if that text is another one
\* (the process has sent a different text since), the datagram is handled
\* like that of any other host and, unless its text is the head of
\* received_clips, recorded.
C19_NoEchoOfLastSent ==
    [][\A p \in Procs :
          OwnEcho(p) =>
             LET text == decode_utf8(Take(TheValue(last'.dgram).data,
                                          RecvBufSize))
             IN  IF last_sent[p] = Some(text) THEN Quiet
                 ELSE (text # <<>> /\ ~IsHead(received_clips[p], text))
                         => IsHead(received_clips'[p], text)]_vars

\* C19 witness: the echo of the text sent last, a text of more than 1472
\* characters, came back and was ignored.
C19_Witness ==
    /\ last.op = "on_clip_received"
    /\ TheValue(last.dgram).address = last.proc
    /\ last.text = last_sent[last.proc]
    /\ TheValue(last.text) = Rep("a", MSS)
    /\ last.new = None
    /\ last.ret = "True"

\* no handler has anything to do: no owner-change signal is pending and no
\* datagram waits for a watch
Quiescent ==
    \A p \in Procs :
        /\ pending[p] = 0
        /\ watching[p] => inbox[p] = EmptyBag

\* C20: two peers with auto-send and auto-receive, whose clipboards are
\* both source and destination, come to rest after the finitely many
\* clipboard changes of their users: from some point on no datagram is in
\* flight and nothing is sent any more, under every delivery order.
C20_Quiescence == <>[]Quiescent

====
